---------------------------- MODULE Spec2Model ----------------------------
(* Model of the aws_vpc_peering_connection resource                        *)
(* (internal/service/ec2/vpc_peering_connection.go): the create, read,      *)
(* update and delete handlers, the accept step and the status poller.       *)
(* One handler runs at a time (the plugin SDK serialises calls on a         *)
(* resource); every EC2 API call is an input drawn from a small set of      *)
(* responses, because the remote connection is changed by the peer account  *)
(* outside the provider's control.                                          *)
EXTENDS Integers, Sequences, FiniteSets, TLC

(***************************************************************************)
(* Bounds                                                                  *)
(***************************************************************************)
\* largest number of Describe polls one wait performs before it times out
MaxPolls == 2

(***************************************************************************)
(* Values                                                                  *)
(***************************************************************************)
StateInitiatingRequest == "initiating-request"
StatePendingAcceptance == "pending-acceptance"
StateProvisioning == "provisioning"
StateActive == "active"
StateFailed == "failed"
StateRejected == "rejected"
StateExpired == "expired"
StateDeleting == "deleting"
StateDeleted == "deleted"

\* status codes a Describe or Accept response can carry
Statuses ==
    { StateInitiatingRequest, StatePendingAcceptance, StateProvisioning,
      StateActive, StateFailed, StateRejected, StateExpired, StateDeleting }

ErrCodeInvalidVpcPeeringConnectionIDNotFound == "InvalidVpcPeeringConnectionID.NotFound"

\* the identifier CreateVpcPeeringConnection returns
NewId == "pcx-1"

\* the caller's account (meta.AccountID)
AccountID == "111"

\* an error value: nil, or an AWS error with a code and a message (words)
NoErr == [isNil |-> TRUE, code |-> "", msg |-> <<>>]

AwsErr(code, msg) == [isNil |-> FALSE, code |-> code, msg |-> msg]

\* errors.New(message): an error without an AWS code
NewError(msg) == [isNil |-> FALSE, code |-> "", msg |-> msg]

\* strings.Contains on messages, which are sequences of words
Contains(msg, sub) ==
    \E i \in 0..(Len(msg) - Len(sub)) : SubSeq(msg, i + 1, i + Len(sub)) = sub

ErrCodeEquals(err, code) == (~err.isNil) /\ err.code = code

ErrMessageContains(err, code, sub) ==
    (~err.isNil) /\ err.code = code /\ Contains(err.msg, sub)

\* the two sides of a connection the Describe call can report
VpcInfos(vpc) ==
    { [owner |-> o, vpc |-> vpc, region |-> r] :
        o \in {"111", "222"}, r \in {"us-east-1", "eu-west-1"} }

Connections ==
    { [requester |-> rq, accepter |-> ac] :
        rq \in { v \in VpcInfos("vpc-req") : v.region = "us-east-1" },
        ac \in VpcInfos("vpc-acc") }

\* the message AWS attaches to a status
StatusMessages(s) ==
    IF s = StateFailed THEN { <<"Failed", "due", "to", "incorrect", "VPC-ID">>, <<>> }
    ELSE { <<s>> }

\* what DescribeVpcPeeringConnections can answer
DescribeErrors ==
    { AwsErr(ErrCodeInvalidVpcPeeringConnectionIDNotFound, <<"does", "not", "exist">>),
      AwsErr("RequestLimitExceeded", <<ErrCodeInvalidVpcPeeringConnectionIDNotFound>>),
      AwsErr("UnauthorizedOperation", <<"denied">>) }

DescribeResponses ==
    { [err |-> e, kind |-> "nil_resp", code |-> "", message |-> <<>>] : e \in DescribeErrors }
    \cup
    { [err |-> NoErr, kind |-> k, code |-> "", message |-> <<>>] :
        k \in {"nil_resp", "nil_conns", "empty_conns", "nil_first", "nil_status"} }
    \cup
    UNION { { [err |-> NoErr, kind |-> "conn", code |-> s, message |-> m] :
                m \in StatusMessages(s) } : s \in Statuses }

\* what DeleteVpcPeeringConnection can answer
DeleteErrors ==
    { NoErr,
      AwsErr(ErrCodeInvalidVpcPeeringConnectionIDNotFound, <<"does", "not", "exist">>),
      AwsErr("InvalidStateTransition", <<"transition", "from", "failed", "to", "deleting">>),
      AwsErr("InvalidStateTransition", <<"transition", "from", "deleting", "to", "active">>),
      AwsErr("OperationNotPermitted", <<"transition", "from", "failed", "to", "deleting">>),
      AwsErr("UnauthorizedOperation", <<"denied">>) }

\* a StateRefreshFunc result: (object, state, error)
RefreshResult(obj, state, err) == [obj |-> obj, state |-> state, err |-> err]

NoResult == RefreshResult("nil", "", NoErr)

NoResponse == [err |-> NoErr, kind |-> "none", code |-> "", message |-> <<>>]

(***************************************************************************)
(* Pure functions of the source                                            *)
(***************************************************************************)
\* the poller without the short circuit on the failed status
RefreshStateKeepsFailed(resp) ==
    IF ~resp.err.isNil
    THEN IF ErrMessageContains(resp.err, ErrCodeInvalidVpcPeeringConnectionIDNotFound, <<>>)
         THEN RefreshResult("nil", StateDeleted, NoErr)
         ELSE RefreshResult("nil", "", resp.err)
    ELSE IF resp.kind \in {"nil_resp", "nil_conns", "empty_conns", "nil_first", "nil_status"}
    THEN RefreshResult("nil", "", NoErr)
    ELSE RefreshResult("pc", resp.code, NoErr)

\* vpcPeeringConnectionRefreshState: one Describe response to (obj, state, err)
vpcPeeringConnectionRefreshState(resp) ==
    IF ~resp.err.isNil
    THEN IF ErrMessageContains(resp.err, ErrCodeInvalidVpcPeeringConnectionIDNotFound, <<>>)
         THEN RefreshResult("nil", StateDeleted, NoErr)
         ELSE RefreshResult("nil", "", resp.err)
    ELSE IF resp.kind \in {"nil_resp", "nil_conns", "empty_conns", "nil_first"}
    THEN RefreshResult("nil", "", NoErr)
    ELSE IF resp.kind = "nil_status"
    THEN RefreshResult("nil", "", NoErr)
    ELSE IF resp.code = StateFailed
    THEN RefreshResult("nil", resp.code, NewError(resp.message))
    ELSE RefreshResult("pc", resp.code, NoErr)

\* Pending and Target of vpcPeeringConnectionWaitUntilAvailable
AvailablePending == { StateInitiatingRequest, StateProvisioning }

AvailableTarget == { StatePendingAcceptance, StateActive }

\* one iteration of StateChangeConf.WaitForState on a refresh result: an error
\* ends the wait, a nil object is polled again, a Target state ends it with
\* success, a Pending state is polled again, any other state is unexpected.
\* (The SDK also gives up after NotFoundChecks = 20 consecutive nil objects;
\* a wait here ends by timeout after MaxPolls polls, with an error as well.)
WaitForStateStep(pending, target, r) ==
    IF ~r.err.isNil THEN "error"
    ELSE IF r.obj = "nil" THEN "retry"
    ELSE IF r.state \in target THEN "done"
    ELSE IF r.state \in pending THEN "retry"
    ELSE "error"

\* the wait with provisioning moved from Pending to Target
WaitUntilAvailableProvisioningTarget(r) ==
    WaitForStateStep(AvailablePending \ {StateProvisioning},
                     AvailableTarget \cup {StateProvisioning}, r)

\* the step of the wait started by vpcPeeringConnectionWaitUntilAvailable
vpcPeeringConnectionWaitUntilAvailable(r) ==
    WaitForStateStep(AvailablePending, AvailableTarget, r)

\* the step of the wait started by WaitVPCPeeringConnectionActive
WaitVPCPeeringConnectionActive(r) ==
    WaitForStateStep({ StateInitiatingRequest, StateProvisioning },
                     { StateActive, StatePendingAcceptance }, r)

\* the step of the wait started by WaitVPCPeeringConnectionDeleted
WaitVPCPeeringConnectionDeleted(r) ==
    IF ~r.err.isNil THEN "error"
    ELSE IF r.state = StateDeleted THEN "done"
    ELSE IF r.state \in { "", StateActive, StateDeleting, StatePendingAcceptance } THEN "retry"
    ELSE "error"

\* the auto-accept condition without the status test
ShouldAcceptAnyStatus(autoAccept, status) ==
    autoAccept

\* the auto-accept condition of the update handler
ShouldAccept(autoAccept, status) ==
    autoAccept /\ status = StatePendingAcceptance

\* the status check that also lets a pending connection through
OptionsModifiablePending(status) ==
    status = StateActive \/ status = StateProvisioning \/ status = StatePendingAcceptance

\* the status check that guards ModifyVpcPeeringConnectionOptions
OptionsModifiable(status) ==
    status = StateActive \/ status = StateProvisioning

\* the accepter test without the comparison against the requester's owner
IsAccepterOwnerOnly(accountID, c) ==
    accountID = c.accepter.owner

\* the read handler's test "we're the accepter"
IsAccepter(accountID, c) ==
    accountID = c.accepter.owner /\ accountID # c.requester.owner

\* the role fields the read handler writes from a found connection
\* (the option blocks and the tags are copied as they are and are left out)
ReadFields(accountID, c, status) ==
    IF IsAccepter(accountID, c)
    THEN [accept_status |-> status,
          peer_region |-> c.accepter.region,
          peer_owner_id |-> c.requester.owner,
          peer_vpc_id |-> c.requester.vpc,
          vpc_id |-> c.accepter.vpc]
    ELSE [accept_status |-> status,
          peer_region |-> c.accepter.region,
          peer_owner_id |-> c.accepter.owner,
          peer_vpc_id |-> c.accepter.vpc,
          vpc_id |-> c.requester.vpc]

\* the classification that ignores the message of InvalidStateTransition
DeleteOutcomeAnyTransition(err) ==
    IF ErrCodeEquals(err, ErrCodeInvalidVpcPeeringConnectionIDNotFound) THEN "gone"
    ELSE IF ErrCodeEquals(err, "InvalidStateTransition") THEN "gone"
    ELSE IF ~err.isNil THEN "error"
    ELSE "wait"

\* how the delete handler classifies the error of the delete call
DeleteOutcome(err) ==
    IF ErrCodeEquals(err, ErrCodeInvalidVpcPeeringConnectionIDNotFound) THEN "gone"
    ELSE IF ErrMessageContains(err, "InvalidStateTransition", <<"to", "deleting">>) THEN "gone"
    ELSE IF ~err.isNil THEN "error"
    ELSE "wait"

(***************************************************************************)
(* State                                                                   *)
(***************************************************************************)
VARIABLES
    pc,          \* position of the running handler, "idle" or "done" between handlers
    handler,     \* the handler the SDK invoked: "none", "create", "read", "update", "delete"
    id,          \* d.Id()
    isNew,       \* d.IsNewResource()
    cfg,         \* configuration and diff: auto_accept, peer_region, changed options, changed tags
    conn,        \* the connection as EC2 holds it (both sides' owner, VPC and region)
    d,           \* the fields the read handler writes into local state
    calls,       \* the API calls and steps of the running handler, in order
    result,      \* what the handler returned: "none" while running, "ok" or an error
    statusCode,  \* the update handler's statusCode
    pcRaw,       \* the update handler's pcRaw: "nil" or "pc"
    refetch,     \* the result of the update handler's direct call of the poller
    lastResp,    \* the last Describe response a poll received
    lastPoll,    \* what the poller returned for lastResp
    polls,       \* number of polls of the running wait
    delErr,      \* the error the last DeleteVpcPeeringConnection call returned
    found        \* outcome of the read handler's find: "none", "found", "notfound", "error"

vars == << pc, handler, id, isNew, cfg, conn, d, calls, result, statusCode, pcRaw,
           refetch, lastResp, lastPoll, polls, delErr, found >>

NoCfg == [auto_accept |-> FALSE, peer_region |-> FALSE,
          options_changed |-> FALSE, tags_changed |-> FALSE]

Cfgs == [auto_accept : BOOLEAN, peer_region : BOOLEAN,
         options_changed : BOOLEAN, tags_changed : BOOLEAN]

\* the fields as the configuration of the requester gives them before create
ConfigFields(c, peerRegion) ==
    [accept_status |-> "",
     peer_region |-> IF peerRegion THEN c.accepter.region ELSE "",
     peer_owner_id |-> c.accepter.owner,
     peer_vpc_id |-> c.accepter.vpc,
     vpc_id |-> c.requester.vpc]

\* the fields of a resource imported by ID (schema.ImportStatePassthrough)
ImportedFields ==
    [accept_status |-> "", peer_region |-> "", peer_owner_id |-> "",
     peer_vpc_id |-> "", vpc_id |-> ""]

\* the fields an earlier refresh recorded from the accepter's side
AccepterFields(c) ==
    [accept_status |-> StateActive,
     peer_region |-> c.accepter.region,
     peer_owner_id |-> c.requester.owner,
     peer_vpc_id |-> c.requester.vpc,
     vpc_id |-> c.accepter.vpc]

Running == pc \notin {"idle", "done"}

Init ==
    /\ pc = "idle"
    /\ handler = "none"
    /\ conn \in Connections
    /\ \/ /\ id = ""
          /\ d = ConfigFields(conn, FALSE)
       \/ /\ id = NewId
          /\ d \in { ImportedFields, AccepterFields(conn),
                     [ConfigFields(conn, FALSE) EXCEPT !.accept_status = StateActive] }
    /\ isNew = FALSE
    /\ cfg = NoCfg
    /\ calls = <<>>
    /\ result = "none"
    /\ statusCode = ""
    /\ pcRaw = "nil"
    /\ refetch = NoResult
    /\ lastResp = NoResponse
    /\ lastPoll = NoResult
    /\ polls = 0
    /\ delErr = NoErr
    /\ found = "none"

\* the locals of a handler as they are when it starts
ResetLocals ==
    /\ statusCode' = ""
    /\ pcRaw' = "nil"
    /\ refetch' = NoResult
    /\ lastResp' = NoResponse
    /\ lastPoll' = NoResult
    /\ polls' = 0
    /\ delErr' = NoErr
    /\ found' = "none"

\* a handler returns
Return(r) ==
    /\ pc' = "done"
    /\ result' = r

(***************************************************************************)
(* resourceVPCPeeringConnectionCreate                                      *)
(***************************************************************************)
\* what the create handler does with the answer of CreateVpcPeeringConnection
AfterCreateCall(ok, oldId) ==
    IF ok
    THEN [pc |-> "create_wait", id |-> NewId, result |-> "none",
          calls |-> <<"Create", "SetId", "WaitActive">>]
    ELSE [pc |-> "done", id |-> oldId, result |-> "err_create",
          calls |-> <<"Create">>]

\* the create handler going on to the update handler whatever the wait returned
AfterCreateWaitIgnoresError(step) ==
    IF step = "done"
    THEN [pc |-> "update_tags", result |-> "none", calls |-> <<"WaitActiveOk", "Update">>]
    ELSE [pc |-> "update_tags", result |-> "none", calls |-> <<"Update">>]

\* what the create handler does with the outcome of the wait for the active state
AfterCreateWait(step) ==
    IF step = "done"
    THEN [pc |-> "update_tags", result |-> "none", calls |-> <<"WaitActiveOk", "Update">>]
    ELSE [pc |-> "done", result |-> "err_wait_create", calls |-> <<>>]

\* the handler up to the create call
Create(c) ==
    /\ ~Running
    /\ id = ""
    /\ handler' = "create"
    /\ isNew' = TRUE
    /\ cfg' = c
    /\ d' = ConfigFields(conn, c.peer_region)
    /\ ResetLocals
    /\ IF c.peer_region /\ c.auto_accept
       THEN /\ Return("err_peer_region_auto_accept")
            /\ calls' = <<>>
            /\ id' = id
       ELSE \E ok \in BOOLEAN :
              LET a == AfterCreateCall(ok, id) IN
              /\ pc' = a.pc
              /\ id' = a.id
              /\ result' = a.result
              /\ calls' = a.calls
    /\ UNCHANGED conn

\* one poll of WaitVPCPeeringConnectionActive
CreateWaitPoll(resp) ==
    /\ pc = "create_wait"
    /\ polls < MaxPolls
    /\ LET r == vpcPeeringConnectionRefreshState(resp)
           step == WaitVPCPeeringConnectionActive(r) IN
       /\ lastResp' = resp
       /\ lastPoll' = r
       /\ IF step = "retry"
          THEN /\ polls' = polls + 1
               /\ UNCHANGED << pc, result, calls >>
          ELSE LET a == AfterCreateWait(step) IN
               /\ pc' = a.pc
               /\ result' = a.result
               /\ calls' = calls \o a.calls
               /\ polls' = 0
    /\ UNCHANGED << handler, id, isNew, cfg, conn, d, statusCode, pcRaw, refetch, delErr, found >>

\* the wait for the active state runs out of time
CreateWaitTimeout ==
    /\ pc = "create_wait"
    /\ LET a == AfterCreateWait("error") IN
       /\ pc' = a.pc
       /\ result' = a.result
       /\ calls' = calls \o a.calls
    /\ UNCHANGED << handler, id, isNew, cfg, conn, d, statusCode, pcRaw, refetch,
                    lastResp, lastPoll, polls, delErr, found >>

(***************************************************************************)
(* resourceVPCPeeringConnectionUpdate                                      *)
(***************************************************************************)
\* the SDK invokes the update handler on an existing resource
\* (peer_region is read by the create handler only)
Update(c) ==
    /\ ~Running
    /\ id # ""
    /\ ~c.peer_region
    /\ handler' = "update"
    /\ isNew' = FALSE
    /\ cfg' = c
    /\ ResetLocals
    /\ pc' = "update_tags"
    /\ result' = "none"
    /\ calls' = <<"Update">>
    /\ UNCHANGED << id, conn, d >>

\* the tag diff is pushed when tags_all changed and the resource is not new
UpdateTags ==
    /\ pc = "update_tags"
    /\ IF cfg.tags_changed /\ ~isNew
       THEN \E ok \in BOOLEAN :
              /\ calls' = Append(calls, "UpdateTags")
              /\ IF ok
                 THEN pc' = "update_refetch" /\ result' = result
                 ELSE Return("err_tags")
       ELSE /\ pc' = "update_refetch"
            /\ UNCHANGED << calls, result >>
    /\ UNCHANGED << handler, id, isNew, cfg, conn, d, statusCode, pcRaw, refetch,
                    lastResp, lastPoll, polls, delErr, found >>

\* the direct call of the poller, and the branch on its result
UpdateRefetch(resp) ==
    /\ pc = "update_refetch"
    /\ LET r == vpcPeeringConnectionRefreshState(resp) IN
       /\ lastResp' = resp
       /\ lastPoll' = r
       /\ refetch' = r
       /\ pcRaw' = r.obj
       /\ statusCode' = r.state
       /\ calls' = Append(calls, "Describe")
       /\ IF ~r.err.isNil
          THEN Return("err_refetch") /\ id' = id
          ELSE IF r.obj = "nil"
          THEN Return("ok") /\ id' = ""
          ELSE /\ pc' = IF ShouldAccept(cfg.auto_accept, r.state)
                        THEN "update_accept" ELSE "update_options"
               /\ UNCHANGED << id, result >>
    /\ UNCHANGED << handler, isNew, cfg, conn, d, polls, delErr, found >>

\* resourceVPCPeeringConnectionAccept and the start of the wait
UpdateAccept ==
    /\ pc = "update_accept"
    /\ \/ /\ calls' = Append(calls, "Accept")
          /\ statusCode' = ""
          /\ Return("err_accept")
       \/ \E s \in Statuses :
            /\ calls' = calls \o <<"Accept", "WaitAvailable">>
            /\ statusCode' = s
            /\ pc' = "update_wait"
            /\ result' = result
    /\ polls' = 0
    /\ UNCHANGED << handler, id, isNew, cfg, conn, d, pcRaw, refetch,
                    lastResp, lastPoll, delErr, found >>

\* one poll of vpcPeeringConnectionWaitUntilAvailable
UpdateWaitPoll(resp) ==
    /\ pc = "update_wait"
    /\ polls < MaxPolls
    /\ LET r == vpcPeeringConnectionRefreshState(resp)
           step == vpcPeeringConnectionWaitUntilAvailable(r) IN
       /\ lastResp' = resp
       /\ lastPoll' = r
       /\ IF step = "retry"
          THEN /\ polls' = polls + 1
               /\ UNCHANGED << pc, result, calls >>
          ELSE IF step = "done"
          THEN /\ pc' = "update_options"
               /\ calls' = Append(calls, "WaitAvailableOk")
               /\ polls' = 0
               /\ result' = result
          ELSE /\ Return("err_wait_available")
               /\ polls' = 0
               /\ calls' = calls
    /\ UNCHANGED << handler, id, isNew, cfg, conn, d, statusCode, pcRaw, refetch, delErr, found >>

\* the wait for the available state runs out of time
UpdateWaitTimeout ==
    /\ pc = "update_wait"
    /\ Return("err_wait_available_timeout")
    /\ UNCHANGED << handler, id, isNew, cfg, conn, d, calls, statusCode, pcRaw, refetch,
                    lastResp, lastPoll, polls, delErr, found >>

\* the peering options are modified when the option blocks changed
UpdateOptions ==
    /\ pc = "update_options"
    /\ IF cfg.options_changed
       THEN IF OptionsModifiable(statusCode)
            THEN \E ok \in BOOLEAN :
                   /\ calls' = Append(calls, "Modify")
                   /\ IF ok
                      THEN pc' = "read" /\ result' = result
                      ELSE Return("err_modify")
            ELSE /\ Return("err_not_active")
                 /\ calls' = calls
       ELSE /\ pc' = "read"
            /\ UNCHANGED << calls, result >>
    /\ UNCHANGED << handler, id, isNew, cfg, conn, d, statusCode, pcRaw, refetch,
                    lastResp, lastPoll, polls, delErr, found >>

(***************************************************************************)
(* resourceVPCPeeringConnectionRead                                        *)
(***************************************************************************)
\* what FindVPCPeeringConnectionByID can return
FindVPCPeeringConnectionByID ==
    { [outcome |-> "notfound", code |-> ""], [outcome |-> "error", code |-> ""] }
    \cup { [outcome |-> "found", code |-> s] : s \in Statuses \ {StateFailed} }

\* the SDK invokes the read handler on an existing resource
Read ==
    /\ ~Running
    /\ id # ""
    /\ handler' = "read"
    /\ isNew' = FALSE
    /\ ResetLocals
    /\ pc' = "read"
    /\ result' = "none"
    /\ calls' = <<>>
    /\ UNCHANGED << id, cfg, conn, d >>

\* the body of the read handler
ReadBody(f) ==
    /\ pc = "read"
    /\ found' = f.outcome
    /\ calls' = Append(calls, "Read")
    /\ IF (~isNew) /\ f.outcome = "notfound"
       THEN /\ id' = ""
            /\ Return("ok")
            /\ d' = d
       ELSE IF f.outcome # "found"
       THEN /\ Return("err_read")
            /\ UNCHANGED << id, d >>
       ELSE /\ d' = ReadFields(AccountID, conn, f.code)
            /\ Return("ok")
            /\ id' = id
    /\ UNCHANGED << handler, isNew, cfg, conn, statusCode, pcRaw, refetch,
                    lastResp, lastPoll, polls, delErr >>

(***************************************************************************)
(* resourceVPCPeeringConnectionDelete                                      *)
(***************************************************************************)
\* the delete call and the classification of its error
Delete(err) ==
    /\ ~Running
    /\ id # ""
    /\ handler' = "delete"
    /\ isNew' = FALSE
    /\ statusCode' = ""
    /\ pcRaw' = "nil"
    /\ refetch' = NoResult
    /\ lastResp' = NoResponse
    /\ lastPoll' = NoResult
    /\ polls' = 0
    /\ found' = "none"
    /\ delErr' = err
    /\ LET o == DeleteOutcome(err) IN
       /\ IF o = "gone" THEN Return("ok") /\ calls' = <<"Delete">>
          ELSE IF o = "error" THEN Return("err_delete") /\ calls' = <<"Delete">>
          ELSE /\ pc' = "delete_wait"
               /\ result' = "none"
               /\ calls' = <<"Delete", "WaitDeleted">>
    /\ UNCHANGED << id, cfg, conn, d >>

\* one poll of WaitVPCPeeringConnectionDeleted
DeleteWaitPoll(resp) ==
    /\ pc = "delete_wait"
    /\ polls < MaxPolls
    /\ LET r == vpcPeeringConnectionRefreshState(resp)
           step == WaitVPCPeeringConnectionDeleted(r) IN
       /\ lastResp' = resp
       /\ lastPoll' = r
       /\ IF step = "retry"
          THEN /\ polls' = polls + 1
               /\ UNCHANGED << pc, result, calls >>
          ELSE IF step = "done"
          THEN /\ Return("ok")
               /\ calls' = Append(calls, "WaitDeletedOk")
               /\ polls' = 0
          ELSE /\ Return("err_wait_delete")
               /\ polls' = 0
               /\ calls' = calls
    /\ UNCHANGED << handler, id, isNew, cfg, conn, d, statusCode, pcRaw, refetch, delErr, found >>

\* the wait for the deletion runs out of time
DeleteWaitTimeout ==
    /\ pc = "delete_wait"
    /\ Return("err_wait_delete")
    /\ UNCHANGED << handler, id, isNew, cfg, conn, d, calls, statusCode, pcRaw, refetch,
                    lastResp, lastPoll, polls, delErr, found >>

Next ==
    \/ \E c \in Cfgs : Create(c)
    \/ \E resp \in DescribeResponses : CreateWaitPoll(resp)
    \/ CreateWaitTimeout
    \/ \E c \in Cfgs : Update(c)
    \/ UpdateTags
    \/ \E resp \in DescribeResponses : UpdateRefetch(resp)
    \/ UpdateAccept
    \/ \E resp \in DescribeResponses : UpdateWaitPoll(resp)
    \/ UpdateWaitTimeout
    \/ UpdateOptions
    \/ Read
    \/ \E f \in FindVPCPeeringConnectionByID : ReadBody(f)
    \/ \E err \in DeleteErrors : Delete(err)
    \/ \E resp \in DescribeResponses : DeleteWaitPoll(resp)
    \/ DeleteWaitTimeout

Spec == Init /\ [][Next]_vars

(***************************************************************************)
(* Properties                                                              *)
(***************************************************************************)
Has(x) == \E i \in 1..Len(calls) : calls[i] = x

Idx(x) == CHOOSE i \in 1..Len(calls) : calls[i] = x

InUpdate == handler \in {"create", "update"}

\* the status the update handler holds when it reaches the options step
HeldStatus == IF Has("Accept") THEN statusCode ELSE refetch.state

\* C1: once the re-fetch has returned a connection without error, Accept is
\* called if and only if auto_accept is set and the re-fetched status is
\* pending-acceptance.
C1_AcceptIffAutoAcceptAndPending ==
    /\ (InUpdate /\ refetch.obj = "pc" /\ refetch.err.isNil /\ pc # "update_accept")
         => (Has("Accept") <=> (cfg.auto_accept /\ refetch.state = "pending-acceptance"))
    /\ Has("Accept") => (refetch.obj = "pc" /\ refetch.err.isNil)

C1_Witness ==
    /\ pc = "done" /\ handler = "update" /\ result = "ok"
    /\ Has("Accept") /\ refetch.state = "pending-acceptance" /\ cfg.auto_accept

\* C2: with changed option blocks, Modify is issued only when the held status
\* is active or provisioning; for any other status there is no Modify call, no
\* read, and the "not active" error is returned.
C2_ModifyOnlyWhenActiveOrProvisioning ==
    LET reached == /\ InUpdate
                   /\ cfg.options_changed
                   /\ \/ pc = "read"
                      \/ Has("Read")
                      \/ result \in {"err_modify", "err_not_active"}
    IN /\ reached =>
            IF HeldStatus \in {"active", "provisioning"}
            THEN Has("Modify") /\ result # "err_not_active"
            ELSE /\ ~Has("Modify")
                 /\ ~Has("Read")
                 /\ pc = "done"
                 /\ result = "err_not_active"
       /\ Has("Modify") => (cfg.options_changed /\ HeldStatus \in {"active", "provisioning"})
       /\ result = "err_not_active" => cfg.options_changed

C2_Witness ==
    /\ pc = "done" /\ result = "err_not_active"
    /\ Has("Accept") /\ statusCode = "pending-acceptance"

\* the messages that contain "to deleting"
HasToDeleting(msg) ==
    \E i \in 1..(Len(msg) - 1) : msg[i] = "to" /\ msg[i + 1] = "deleting"

\* C3: a delete call that fails with the not-found code, or with
\* InvalidStateTransition and a message containing "to deleting", ends in
\* success without a wait; any other error is returned without a wait; only a
\* successful delete call is followed by the wait for deletion.
C3_DeleteIdempotent ==
    (handler = "delete") =>
      LET gone == /\ ~delErr.isNil
                  /\ \/ delErr.code = "InvalidVpcPeeringConnectionID.NotFound"
                     \/ delErr.code = "InvalidStateTransition" /\ HasToDeleting(delErr.msg)
      IN /\ gone => (pc = "done" /\ result = "ok" /\ calls = <<"Delete">>)
         /\ ((~delErr.isNil) /\ ~gone) =>
               (pc = "done" /\ result = "err_delete" /\ calls = <<"Delete">>)
         /\ delErr.isNil => (Len(calls) >= 2 /\ calls[1] = "Delete" /\ calls[2] = "WaitDeleted")
         /\ Has("WaitDeleted") => delErr.isNil

C3_Witness ==
    /\ handler = "delete" /\ pc = "done" /\ result = "ok"
    /\ delErr.code = "InvalidStateTransition" /\ ~Has("WaitDeleted")

\* C4: after a successful read, vpc_id is the accepter's VPC and the peer
\* fields are the requester's exactly when the caller's account equals the
\* accepter's owner and differs from the requester's owner; in every other
\* case vpc_id is the requester's VPC and the peer fields are the accepter's.
C4_RoleByAccountComparison ==
    (pc = "done" /\ found = "found") =>
      IF AccountID = conn.accepter.owner /\ AccountID # conn.requester.owner
      THEN /\ d.vpc_id = conn.accepter.vpc
           /\ d.peer_vpc_id = conn.requester.vpc
           /\ d.peer_owner_id = conn.requester.owner
      ELSE /\ d.vpc_id = conn.requester.vpc
           /\ d.peer_vpc_id = conn.accepter.vpc
           /\ d.peer_owner_id = conn.accepter.owner

C4_Witness ==
    /\ pc = "done" /\ found = "found" /\ result = "ok"
    /\ conn.accepter.owner = AccountID /\ conn.requester.owner = AccountID
    /\ d.vpc_id = conn.requester.vpc

\* C5: the poller returns (nil, deleted, no error) for the not-found error,
\* (nil, empty, the error) for any other error, (nil, empty, no error) for a
\* nil response, no connections, a nil first connection or a missing Status,
\* (nil, failed, an error with the status message) for the failed status, and
\* (the connection, its status code, no error) otherwise.
C5_PollerResultByResponseClass ==
    (lastResp.kind # "none") =>
      /\ ((~lastResp.err.isNil) /\ lastResp.err.code = "InvalidVpcPeeringConnectionID.NotFound")
            => lastPoll = [obj |-> "nil", state |-> "deleted", err |-> NoErr]
      /\ ((~lastResp.err.isNil) /\ lastResp.err.code # "InvalidVpcPeeringConnectionID.NotFound")
            => lastPoll = [obj |-> "nil", state |-> "", err |-> lastResp.err]
      /\ (lastResp.err.isNil /\ lastResp.kind # "conn")
            => lastPoll = [obj |-> "nil", state |-> "", err |-> NoErr]
      /\ (lastResp.err.isNil /\ lastResp.kind = "conn" /\ lastResp.code = "failed")
            => /\ lastPoll.obj = "nil"
               /\ lastPoll.state = "failed"
               /\ ~lastPoll.err.isNil
               /\ lastPoll.err.msg = lastResp.message
      /\ (lastResp.err.isNil /\ lastResp.kind = "conn" /\ lastResp.code # "failed")
            => lastPoll = [obj |-> "pc", state |-> lastResp.code, err |-> NoErr]

C5_Witness ==
    /\ lastResp.kind = "conn" /\ lastResp.code = "failed" /\ lastResp.message # <<>>
    /\ lastPoll.obj = "nil" /\ lastPoll.err.msg = lastResp.message

\* C6: the create handler issues the create call, then records the ID, then
\* waits for the active state, and enters the update handler only after the
\* wait succeeded; a failed create call records no ID and starts neither the
\* wait nor the update; a failed wait returns an error without the update and
\* leaves the recorded ID in place.
C6_CreateOrder ==
    (handler = "create") =>
      /\ Has("Update") =>
            (Len(calls) >= 5 /\
             SubSeq(calls, 1, 5) = <<"Create", "SetId", "WaitActive", "WaitActiveOk", "Update">>)
      /\ Has("WaitActive") =>
            (Len(calls) >= 3 /\ SubSeq(calls, 1, 3) = <<"Create", "SetId", "WaitActive">>)
      /\ pc = "create_wait" => (id = NewId /\ calls = <<"Create", "SetId", "WaitActive">>)
      /\ result = "err_create" =>
            (pc = "done" /\ id = "" /\ calls = <<"Create">>)
      /\ result = "err_wait_create" =>
            (pc = "done" /\ id = NewId /\ calls = <<"Create", "SetId", "WaitActive">>)

C6_Witness ==
    /\ handler = "create" /\ pc = "done" /\ result = "ok" /\ id = NewId
    /\ Has("WaitActiveOk") /\ Has("Update") /\ Has("Read")

\* C7: after Accept the update handler stays in the wait while the poller
\* reports initiating-request or provisioning, leaves it successfully only on
\* pending-acceptance or active, issues no Modify and no read before the wait
\* has succeeded, and returns an error without a Modify call when Accept or
\* the wait fails.
C7_AcceptThenWaitThenModify ==
    InUpdate =>
      /\ Has("WaitAvailableOk") =>
            (lastPoll.obj = "pc" /\ lastPoll.state \in {"pending-acceptance", "active"})
      /\ (pc = "update_wait" /\ polls > 0) =>
            \/ lastPoll.obj = "nil" /\ lastPoll.err.isNil
            \/ lastPoll.obj = "pc" /\ lastPoll.state \in {"initiating-request", "provisioning"}
      /\ result = "err_wait_available" =>
            \/ ~lastPoll.err.isNil
            \/ /\ lastPoll.obj = "pc"
               /\ lastPoll.state \notin {"initiating-request", "provisioning",
                                          "pending-acceptance", "active"}
      /\ (Has("Accept") /\ (Has("Modify") \/ Has("Read") \/ pc \in {"update_options", "read"})) =>
            /\ Has("WaitAvailableOk")
            /\ Idx("Accept") < Idx("WaitAvailableOk")
            /\ Has("Modify") => Idx("WaitAvailableOk") < Idx("Modify")
            /\ Has("Read") => Idx("WaitAvailableOk") < Idx("Read")
      /\ result \in {"err_accept", "err_wait_available", "err_wait_available_timeout"} =>
            (pc = "done" /\ Has("Accept") /\ ~Has("Modify") /\ ~Has("Read")
                /\ ~Has("WaitAvailableOk"))

C7_Witness ==
    /\ InUpdate /\ pc = "done" /\ result = "ok"
    /\ Has("Accept") /\ Has("WaitAvailableOk") /\ Has("Modify") /\ Has("Read")
    /\ statusCode = "provisioning" /\ lastPoll.state = "active"

\* the poller's answer to an empty or inconsistent Describe response
EmptyResult == [obj |-> "nil", state |-> "", err |-> NoErr]

\* C8: an empty status with no error makes every caller of the poller poll
\* again, the update handler's direct re-fetch included: an empty response
\* never clears the resource ID and never ends the update.
C8_EmptyResultIsRetried ==
    (InUpdate /\ Has("Describe") /\ refetch = EmptyResult) =>
        (id # "" /\ pc # "done")

\* C9: after a successful read peer_region is the region of the side whose
\* VPC and owner were written to peer_vpc_id and peer_owner_id.
C9_PeerFieldsDescribeOneSide ==
    (pc = "done" /\ found = "found") =>
      /\ d.peer_vpc_id = conn.requester.vpc => d.peer_region = conn.requester.region
      /\ d.peer_vpc_id = conn.accepter.vpc => d.peer_region = conn.accepter.region

\* C10: whenever the create handler returns without error, the resource ID in
\* local state is the ID the create call returned.
C10_CreateSuccessKeepsId ==
    (handler = "create" /\ pc = "done" /\ result = "ok") => id = NewId

=============================================================================
